---- MODULE Spec2Model ----
(***************************************************************************)
(* catlr (src/main.cpp): pattern matcher, filter evaluator, argument scan, *)
(* native tree walker and recursive content dump.                          *)
(*                                                                         *)
(* A std::string is a sequence of one-character strings, so that           *)
(* find / substr / rfind / compare are computed position by position.      *)
(* A filesystem path is a sequence of components, each a string.           *)
(***************************************************************************)
EXTENDS Integers, Sequences, FiniteSets, TLC

VARIABLES
    \* ---- the environment of one run
    argv,               \* argv[1..argc-1], each argument a string
    tree,               \* the directory tree: a set of paths below the cwd
    dirs,               \* the paths of tree that are directories
    badRel,             \* entries for which fs::relative / string() throws
    stdout_file,        \* the regular file stdout is redirected to, or NoPath
    emptyBack,          \* what this build does for back() of an empty string
    use_external_tree,  \* command_exists(config.tree_command)
    \* ---- main()'s locals
    pc,
    first_flag_idx,
    argi,               \* the flag loop's i
    target_paths,
    filters,
    t,                  \* index into target_paths
    target_path,        \* fs::canonical(path_entry), as a path of tree
    treeStack,          \* print_tree_recursive's call stack
    dumpStack,          \* recursive_directory_iterator's pending directories
    \* ---- what the run did
    treeOut,            \* the entries the native tree printed, in order
    listChecked,        \* <<t, entry>> handed to matches_filters, list axis
    printChecked,       \* <<t, entry>> handed to matches_filters, print axis
    emitted,            \* <<t, file>> whose contents went to stdout
    loopSkipped,        \* <<t, file>> skipped by the I/O loop check
    errs,               \* messages on stderr
    \* ---- a single call of the pure functions (MatchSpec, FilterSpec)
    m_rel, m_fname, m_pattern, m_path, m_includes, m_excludes, m_call

envVars  == <<argv, tree, dirs, badRel, stdout_file, emptyBack, use_external_tree>>
mainVars == <<pc, first_flag_idx, argi, target_paths, filters, t, target_path,
              treeStack, dumpStack>>
outVars  == <<treeOut, listChecked, printChecked, emitted, loopSkipped, errs>>
callVars == <<m_rel, m_fname, m_pattern, m_path, m_includes, m_excludes, m_call>>
vars     == <<envVars, mainVars, outVars, callVars>>

\* "no such path": the value of a path variable that holds none
NoPath == <<<<"?">>>>

(***************************************************************************)
(* Bounds of the model.                                                    *)
(***************************************************************************)
MaxPatLen  == 3     \* length of the enumerated patterns
MaxPathLen == 3     \* length of the enumerated relative paths
MaxList    == 2     \* length of the enumerated include / exclude lists
MaxFlags   == 1     \* filter flags of the enumerated invocations

\* std::string::npos, SIZE_MAX cut to TLC's integer range
npos == 2147483647

(***************************************************************************)
(* std::string operations.                                                 *)
(***************************************************************************)
\* size_t subtraction a - b, wrapping below zero
SizeSub(a, b) == IF a >= b THEN a - b ELSE npos - (b - a - 1)

\* s.substr(pos, n), pos <= s.length()
Substr(s, pos, n) ==
    LET cnt == IF n > Len(s) - pos THEN Len(s) - pos ELSE n
    IN  SubSeq(s, pos + 1, pos + cnt)

\* s.find(c) != npos
HasChar(s, c) == \E k \in 1..Len(s) : s[k] = c

\* s.find(sub) != npos
Contains(s, sub) ==
    \E k \in 0..(Len(s) - Len(sub)) : SubSeq(s, k + 1, k + Len(sub)) = sub

\* s.rfind(p, 0) == 0
StartsWith(s, p) == Len(p) <= Len(s) /\ SubSeq(s, 1, Len(p)) = p

\* s.compare(s.length() - suf.length(), suf.length(), suf) == 0
EndsWith(s, suf) ==
    Len(suf) <= Len(s) /\ SubSeq(s, Len(s) - Len(suf) + 1, Len(s)) = suf

\* std::replace(s.begin(), s.end(), '\\', '/')
Normalize(s) == [k \in 1..Len(s) |-> IF s[k] = "\\" THEN "/" ELSE s[k]]

\* the fallback's loop: every character but '*'
StripStars(s) == SelectSeq(s, LAMBDA c : c # "*")

(***************************************************************************)
(* pattern_matches.  pattern.back() on an empty pattern is undefined       *)
(* behaviour: a hardened standard library aborts, any other build reads    *)
(* one byte before the buffer, which is '/' or is not.                     *)
(***************************************************************************)
BackOutcomes == {"abort", "/", "nul"}

\* the pattern reaches pattern.back() at line 178 while empty
UndefinedBack(pattern_in) ==
    LET pattern == Normalize(pattern_in)
    IN  ~HasChar(pattern, "*") /\ Len(pattern) = 0

Back(pattern) == IF Len(pattern) = 0 THEN emptyBack ELSE pattern[Len(pattern)]

WildcardMatch(rel_path_str, pattern) ==
    IF pattern[1] = "*" /\ pattern[Len(pattern)] = "*"
    THEN Contains(rel_path_str, Substr(pattern, 1, SizeSub(Len(pattern), 2)))
    ELSE IF pattern[1] = "*"
    THEN LET suffix == Substr(pattern, 1, npos)
         IN  IF Len(rel_path_str) < Len(suffix) THEN FALSE
             ELSE EndsWith(rel_path_str, suffix)
    ELSE IF pattern[Len(pattern)] = "*"
    THEN StartsWith(rel_path_str, Substr(pattern, 0, Len(pattern) - 1))
    ELSE LET processed_pattern == StripStars(pattern)
         IN  IF processed_pattern = <<>> THEN TRUE
             ELSE Contains(rel_path_str, processed_pattern)

\* mutant: the directory name is matched as a prefix, without its "/"
DirectoryMatch_NamePrefix(rel_path_str, pattern) ==
    StartsWith(rel_path_str, Substr(pattern, 0, SizeSub(Len(pattern), 1)))

DirectoryMatch(rel_path_str, pattern) ==
    LET dir_pattern == pattern
        dir_name    == Substr(pattern, 0, SizeSub(Len(pattern), 1))
    IN  rel_path_str = dir_name \/ StartsWith(rel_path_str, dir_pattern)

\* the value returned, when the call returns
pattern_matches(rel_path_str, filename_str, pattern_in) ==
    LET pattern == Normalize(pattern_in)
    IN  IF HasChar(pattern, "*") THEN WildcardMatch(rel_path_str, pattern)
        ELSE IF Back(pattern) = "/" THEN DirectoryMatch(rel_path_str, pattern)
        ELSE IF ~HasChar(pattern, "/") THEN filename_str = pattern
        ELSE rel_path_str = pattern

\* one call: whether it made the undefined access, whether it returned, and what
PatternCall(rel_path_str, filename_str, pattern) ==
    [undefined |-> UndefinedBack(pattern),
     returned  |-> ~(UndefinedBack(pattern) /\ emptyBack = "abort"),
     value     |-> pattern_matches(rel_path_str, filename_str, pattern)]

(***************************************************************************)
(* Paths.                                                                  *)
(***************************************************************************)
RECURSIVE Join(_)
Join(comps) ==
    IF comps = <<>> THEN <<>>
    ELSE IF Len(comps) = 1 THEN comps[1]
    ELSE comps[1] \o <<"/">> \o Join(Tail(comps))

IsBelow(path, base) ==
    Len(path) > Len(base) /\ SubSeq(path, 1, Len(base)) = base

Parent(path) == SubSeq(path, 1, Len(path) - 1)

Children(dir) == {e \in tree : Len(e) = Len(dir) + 1 /\ Parent(e) = dir}

\* fs::relative(path, base).string() for a path below base
RelativeStr(path, base) == Join(SubSeq(path, Len(base) + 1, Len(path)))

\* path.filename().string()
Filename(path) == path[Len(path)]

(***************************************************************************)
(* matches_filters: "visible" (true), "hidden" (false), or "abort" when a  *)
(* pattern_matches call it makes does not return.                          *)
(***************************************************************************)
RECURSIVE ScanPatterns(_, _, _)
ScanPatterns(rel_path_str, filename_str, patterns) ==
    IF patterns = <<>> THEN "none"
    ELSE IF ~PatternCall(rel_path_str, filename_str, Head(patterns)).returned
    THEN "abort"
    ELSE IF pattern_matches(rel_path_str, filename_str, Head(patterns))
    THEN "match"
    ELSE ScanPatterns(rel_path_str, filename_str, Tail(patterns))

\* mutant: a non-empty include list that matches nothing hides nothing
matches_filters_NoIncludeOnly(path, base_path, includes, excludes) ==
    IF path \in badRel THEN "hidden"
    ELSE LET rel_path_str == Normalize(RelativeStr(path, base_path))
             filename_str == Filename(path)
             inc == ScanPatterns(rel_path_str, filename_str, includes)
             exc == ScanPatterns(rel_path_str, filename_str, excludes)
         IN  IF inc = "abort" THEN "abort"
             ELSE IF inc = "match" THEN "visible"
             ELSE IF exc = "abort" THEN "abort"
             ELSE IF exc = "match" THEN "hidden"
             ELSE "visible"

\* mutant: the exception of the derivation is not caught as "hidden"; the
\* patterns are tried against the path as it stands
matches_filters_NoCatch(path, base_path, includes, excludes) ==
    LET rel_path_str == Normalize(RelativeStr(path, base_path))
        filename_str == Filename(path)
        inc == ScanPatterns(rel_path_str, filename_str, includes)
        exc == ScanPatterns(rel_path_str, filename_str, excludes)
    IN  IF inc = "abort" THEN "abort"
        ELSE IF inc = "match" THEN "visible"
        ELSE IF exc = "abort" THEN "abort"
        ELSE IF exc = "match" THEN "hidden"
        ELSE IF includes # <<>> THEN "hidden"
        ELSE "visible"

matches_filters(path, base_path, includes, excludes) ==
    IF path \in badRel THEN "hidden"
    ELSE LET rel_path_str == Normalize(RelativeStr(path, base_path))
             filename_str == Filename(path)
             inc == ScanPatterns(rel_path_str, filename_str, includes)
             exc == ScanPatterns(rel_path_str, filename_str, excludes)
         IN  IF inc = "abort" THEN "abort"
             ELSE IF inc = "match" THEN "visible"
             ELSE IF exc = "abort" THEN "abort"
             ELSE IF exc = "match" THEN "hidden"
             ELSE IF includes # <<>> THEN "hidden"
             ELSE "visible"

(***************************************************************************)
(* The strings of the modelled runs.                                       *)
(***************************************************************************)
s_dot == <<".">>
s_build == <<"b", "u", "i", "l", "d">>
s_src == <<"s", "r", "c">>
s_sub == <<"s", "u", "b">>
s_main_js == <<"m", "a", "i", "n", ".", "j", "s">>
s_out_js == <<"o", "u", "t", ".", "j", "s">>
s_x_js == <<"x", ".", "j", "s">>
s_a_cpp == <<"a", ".", "c", "p", "p">>
s_a_cpp_bak == <<"a", ".", "c", "p", "p", ".", "b", "a", "k">>
s_README_md == <<"R", "E", "A", "D", "M", "E", ".", "m", "d">>
s_a_bs_b == <<"a", "\\", "b">>
p_build_dir == <<"b", "u", "i", "l", "d", "/">>
p_build_main_js == <<"b", "u", "i", "l", "d", "/", "m", "a", "i", "n", ".", "j", "s">>
p_star_js == <<"*", ".", "j", "s">>
p_star_cpp == <<"*", ".", "c", "p", "p">>
p_src_dir == <<"s", "r", "c", "/">>
p_txt == <<".", "t", "x", "t">>
p_md == <<".", "m", "d">>
p_empty == <<>>
f_e == <<"-", "e">>
f_i == <<"-", "i">>
f_li == <<"-", "l", "i">>
f_il == <<"-", "i", "l">>
f_le == <<"-", "l", "e">>
f_el == <<"-", "e", "l">>
f_pi == <<"-", "p", "i">>
f_ip == <<"-", "i", "p">>
f_pe == <<"-", "p", "e">>
f_ep == <<"-", "e", "p">>
f_h == <<"-", "h">>
f_x == <<"-", "x">>
f_exclude == <<"-", "-", "e", "x", "c", "l", "u", "d", "e">>
f_include == <<"-", "-", "i", "n", "c", "l", "u", "d", "e">>
f_list_include == <<"-", "-", "l", "i", "s", "t", "-", "i", "n", "c", "l", "u", "d", "e">>
f_list_exclude == <<"-", "-", "l", "i", "s", "t", "-", "e", "x", "c", "l", "u", "d", "e">>
f_print_include == <<"-", "-", "p", "r", "i", "n", "t", "-", "i", "n", "c", "l", "u", "d", "e">>
f_print_exclude == <<"-", "-", "p", "r", "i", "n", "t", "-", "e", "x", "c", "l", "u", "d", "e">>
f_help == <<"-", "-", "h", "e", "l", "p">>


(***************************************************************************)
(* The directory trees and the invocations of the modelled runs.           *)
(***************************************************************************)
Root == <<>>

\* src/a.cpp, src/a.cpp.bak, build/out.js, build/main.js
ScenarioTree ==
    {<<s_src>>, <<s_src, s_a_cpp>>, <<s_src, s_a_cpp_bak>>,
     <<s_build>>, <<s_build, s_out_js>>, <<s_build, s_main_js>>}
ScenarioDirs == {<<s_src>>, <<s_build>>}

BigTree ==
    ScenarioTree \cup
    {<<s_README_md>>, <<s_build, s_sub>>, <<s_build, s_sub, s_x_js>>}
BigDirs == ScenarioDirs \cup {<<s_build, s_sub>>}

SmallTree == {<<s_README_md>>, <<s_build>>, <<s_build, s_sub>>,
              <<s_build, s_sub, s_x_js>>, <<s_build, s_main_js>>}
SmallDirs == {<<s_build>>, <<s_build, s_sub>>}

Trees == {[tree |-> ScenarioTree, dirs |-> ScenarioDirs],
          [tree |-> BigTree, dirs |-> BigDirs],
          [tree |-> SmallTree, dirs |-> SmallDirs]}

\* the invocations with up to MaxFlags filter flags, one pattern each
GenFlags == {f_le, f_li, f_pe, f_pi}
GenPatterns == {p_build_dir, p_star_js, s_sub, p_empty}
GenInvocations ==
    UNION {{[k \in 1..(2 * n) |->
               IF k % 2 = 1 THEN fl[(k + 1) \div 2] ELSE pt[k \div 2]] :
             fl \in [1..n -> GenFlags], pt \in [1..n -> GenPatterns]} :
           n \in 1..MaxFlags}

\* the invocations of the claims and of every branch of the argument scan
NamedInvocations ==
    {<<>>,
     <<f_pe, p_build_dir, f_pi, p_build_main_js>>,
     <<f_e, p_build_dir, f_i, p_build_main_js>>,
     <<s_dot, p_txt, p_md>>,
     <<f_le, s_README_md>>,
     <<f_le, s_a_cpp, s_README_md, f_pe, s_a_cpp_bak>>,
     <<f_el, p_build_dir, f_ep, s_out_js>>,
     <<s_dot, f_x, p_txt, s_src>>,
     <<f_h>>,
     <<s_src, f_ip, p_star_cpp>>,
     <<f_le, p_empty>>,
     <<f_li, p_src_dir, p_build_dir, f_le, s_sub>>,
     <<s_dot, p_build_main_js, f_il, p_empty, s_src>>,
     <<s_build, s_dot, f_list_exclude, p_build_dir, f_print_exclude, p_star_js>>}

Invocations == NamedInvocations \cup GenInvocations

(***************************************************************************)
(* main(): the argument scan (lines 377-473).                              *)
(***************************************************************************)
argc == Len(argv) + 1

\* arg[0]: '\0' for an empty argument
Char0(arg) == IF arg = <<>> THEN "nul" ELSE arg[1]

IsHelp(arg) == arg = f_h \/ arg = f_help

\* the first loop: the index it stops at, from i on
RECURSIVE FirstStop(_)
FirstStop(i) ==
    IF i >= argc THEN [help |-> FALSE, idx |-> argc]
    ELSE IF IsHelp(argv[i]) THEN [help |-> TRUE, idx |-> i]
    ELSE IF Char0(argv[i]) = "-" /\ Len(argv[i]) > 1
    THEN [help |-> FALSE, idx |-> i]
    ELSE FirstStop(i + 1)

\* while (i + 1 < argc && argv[i + 1][0] != '-') i++: the last index consumed
RECURSIVE LastPattern(_)
LastPattern(i) ==
    IF i + 1 < argc /\ Char0(argv[i + 1]) # "-" THEN LastPattern(i + 1) ELSE i

EmptyFilters ==
    [print_includes |-> <<>>, print_excludes |-> <<>>,
     list_includes |-> <<>>, list_excludes |-> <<>>]

\* the fields a flag's patterns are pushed to
FlagFields(arg) ==
    IF arg = f_e \/ arg = f_exclude THEN {"list_excludes", "print_excludes"}
    ELSE IF arg = f_i \/ arg = f_include THEN {"list_includes", "print_includes"}
    ELSE IF arg = f_li \/ arg = f_list_include \/ arg = f_il THEN {"list_includes"}
    ELSE IF arg = f_le \/ arg = f_list_exclude \/ arg = f_el THEN {"list_excludes"}
    ELSE IF arg = f_pi \/ arg = f_print_include \/ arg = f_ip THEN {"print_includes"}
    ELSE IF arg = f_pe \/ arg = f_print_exclude \/ arg = f_ep THEN {"print_excludes"}
    ELSE {}

\* lines 383-406: find the first flag, collect the paths before it
ScanArgs ==
    /\ pc = "scan"
    /\ LET stop == FirstStop(1)
           before == SubSeq(argv, 1, stop.idx - 1)
       IN  IF stop.help
           THEN /\ pc' = "exit"
                /\ errs' = Append(errs, "usage")
                /\ UNCHANGED <<first_flag_idx, argi, target_paths>>
           ELSE /\ first_flag_idx' = stop.idx
                /\ target_paths' = IF before = <<>> THEN <<s_dot>> ELSE before
                /\ argi' = stop.idx
                /\ pc' = "parse"
                /\ errs' = errs
    /\ UNCHANGED <<filters, t, target_path, treeStack, dumpStack>>
    /\ UNCHANGED <<treeOut, listChecked, printChecked, emitted, loopSkipped>>
    /\ UNCHANGED <<envVars, callVars>>

\* lines 409-473: one iteration of the flag loop
ParseArg ==
    /\ pc = "parse"
    /\ argi < argc
    /\ LET arg == argv[argi]
           fields == FlagFields(arg)
           last == LastPattern(argi)
           pats == SubSeq(argv, argi + 1, last)
       IN  IF fields # {}
           THEN /\ filters' = [f \in DOMAIN filters |->
                                 IF f \in fields THEN filters[f] \o pats
                                 ELSE filters[f]]
                /\ argi' = last + 1
                /\ errs' = errs
           ELSE IF Char0(arg) = "."
           THEN /\ filters' = [filters EXCEPT
                                 !.print_includes = Append(@, arg)]
                /\ argi' = argi + 1
                /\ errs' = errs
           ELSE IF Char0(arg) = "-"
           THEN /\ errs' = Append(errs, "unknown flag")
                /\ argi' = argi + 1
                /\ filters' = filters
           ELSE /\ argi' = argi + 1
                /\ UNCHANGED <<filters, errs>>
    /\ UNCHANGED <<pc, first_flag_idx, target_paths, t, target_path,
                   treeStack, dumpStack>>
    /\ UNCHANGED <<treeOut, listChecked, printChecked, emitted, loopSkipped>>
    /\ UNCHANGED <<envVars, callVars>>

\* lines 475-479: the flag loop is over; the configuration is loaded
LoadConfig ==
    /\ pc = "parse"
    /\ argi >= argc
    /\ pc' = "target"
    /\ t' = 1
    /\ UNCHANGED <<first_flag_idx, argi, target_paths, filters, target_path,
                   treeStack, dumpStack>>
    /\ UNCHANGED <<outVars, envVars, callVars>>


(***************************************************************************)
(* The native tree walker (lines 272-326).                                 *)
(***************************************************************************)
IsDirectory(path) == path = Root \/ path \in dirs

\* the characters of the modelled file names, in the order of their codes
CharOrder ==
    <<"*", "-", ".", "/", "A", "D", "E", "M", "R", "\\",
      "a", "b", "c", "d", "i", "j", "k", "l", "m", "n", "o", "p", "r",
      "s", "t", "u", "x">>
CharCode(c) == CHOOSE k \in 1..Len(CharOrder) : CharOrder[k] = c

\* a.path().filename() < b.path().filename()
RECURSIVE StrLess(_, _)
StrLess(a, b) ==
    IF b = <<>> THEN FALSE
    ELSE IF a = <<>> THEN TRUE
    ELSE IF Head(a) # Head(b) THEN CharCode(Head(a)) < CharCode(Head(b))
    ELSE StrLess(Tail(a), Tail(b))

\* std::sort of the entries of one directory by file name
RECURSIVE SortByFilename(_)
SortByFilename(entries) ==
    IF entries = {} THEN <<>>
    ELSE LET first == CHOOSE e \in entries :
                        \A o \in entries \ {e} : StrLess(Filename(e), Filename(o))
         IN  <<first>> \o SortByFilename(entries \ {first})

\* the list-axis verdict on an entry of the traversal rooted at base
ListVerdict(entry, base) ==
    matches_filters(entry, base, filters.list_includes, filters.list_excludes)

\* the print-axis verdict
PrintVerdict(entry, base) ==
    matches_filters(entry, base, filters.print_includes, filters.print_excludes)

\* lines 276-289: what directory_iterator yields (nothing when it throws)
Iterated(path) == IF IsDirectory(path) THEN Children(path) ELSE {}

\* lines 277-284: the entries kept
TreeKept(path, base) == {e \in Iterated(path) : ListVerdict(e, base) = "visible"}

\* a matches_filters call of the loop does not return
TreeAborts(path, base) == \E e \in Iterated(path) : ListVerdict(e, base) = "abort"

\* the frame of one print_tree_recursive call: its sorted entries, the next index
TreeFrame(path, base) == [entries |-> SortByFilename(TreeKept(path, base)), i |-> 1]

\* return from the calls whose loop is over
RECURSIVE UnwindTree(_)
UnwindTree(stack) ==
    IF stack = <<>> THEN <<>>
    ELSE LET top == stack[Len(stack)]
         IN  IF top.i > Len(top.entries)
             THEN UnwindTree(SubSeq(stack, 1, Len(stack) - 1))
             ELSE stack

Checks(entries) == {<<t, e>> : e \in entries}

\* lines 482-498: resolve the next target path
Resolve(path_entry) ==
    IF path_entry = s_dot THEN {Root}
    ELSE {n \in tree : Join(n) = path_entry}

ResolveTarget ==
    /\ pc = "target"
    /\ t <= Len(target_paths)
    /\ IF Resolve(target_paths[t]) = {}
       THEN /\ errs' = Append(errs, "could not resolve path")
            /\ t' = t + 1
            /\ UNCHANGED <<pc, target_path>>
       ELSE /\ target_path' = CHOOSE n \in Resolve(target_paths[t]) : TRUE
            /\ pc' = "tree"
            /\ UNCHANGED <<t, errs>>
    /\ UNCHANGED <<first_flag_idx, argi, target_paths, filters, treeStack, dumpStack>>
    /\ UNCHANGED <<treeOut, listChecked, printChecked, emitted, loopSkipped>>
    /\ UNCHANGED <<envVars, callVars>>

\* lines 500-518 and 321-326: the external tree, or print_tree_native's call
\* of print_tree_recursive up to its first entry
TreeListing ==
    /\ pc = "tree"
    /\ IF /\ use_external_tree
          /\ filters.list_includes = <<>>
          /\ filters.list_excludes = <<>>
       THEN /\ pc' = "dump"
            /\ UNCHANGED <<treeStack, listChecked>>
       ELSE /\ listChecked' = listChecked \cup Checks(Iterated(target_path))
            /\ IF TreeAborts(target_path, target_path)
               THEN /\ pc' = "aborted"
                    /\ UNCHANGED treeStack
               ELSE /\ treeStack' = UnwindTree(<<TreeFrame(target_path, target_path)>>)
                    /\ pc' = IF treeStack' = <<>> THEN "dump" ELSE "treewalk"
    /\ UNCHANGED <<first_flag_idx, argi, target_paths, filters, t, target_path,
                   dumpStack>>
    /\ UNCHANGED <<treeOut, printChecked, emitted, loopSkipped, errs>>
    /\ UNCHANGED <<envVars, callVars>>

\* lines 291-310: print one entry; a directory is entered at once
TreeStep ==
    /\ pc = "treewalk"
    /\ LET top == treeStack[Len(treeStack)]
           entry == top.entries[top.i]
           rest == SubSeq(treeStack, 1, Len(treeStack) - 1)
           advanced == Append(rest, [top EXCEPT !.i = @ + 1])
       IN  /\ treeOut' = Append(treeOut, <<t, entry>>)
           /\ IF IsDirectory(entry)
              THEN /\ listChecked' = listChecked \cup Checks(Iterated(entry))
                   /\ IF TreeAborts(entry, target_path)
                      THEN /\ pc' = "aborted"
                           /\ UNCHANGED treeStack
                      ELSE /\ treeStack' =
                                UnwindTree(Append(advanced, TreeFrame(entry, target_path)))
                           /\ pc' = IF treeStack' = <<>> THEN "dump" ELSE "treewalk"
              ELSE /\ treeStack' = UnwindTree(advanced)
                   /\ pc' = IF treeStack' = <<>> THEN "dump" ELSE "treewalk"
                   /\ UNCHANGED listChecked
    /\ UNCHANGED <<first_flag_idx, argi, target_paths, filters, t, target_path,
                   dumpStack>>
    /\ UNCHANGED <<printChecked, emitted, loopSkipped, errs>>
    /\ UNCHANGED <<envVars, callVars>>


(***************************************************************************)
(* The recursive content dump (lines 520-605).  The iterator holds one set *)
(* of pending entries per open directory; it yields them in any order, a   *)
(* directory before what is below it.                                      *)
(***************************************************************************)
RECURSIVE UnwindDump(_)
UnwindDump(stack) ==
    IF stack = <<>> THEN <<>>
    ELSE IF stack[Len(stack)] = {} THEN UnwindDump(SubSeq(stack, 1, Len(stack) - 1))
    ELSE stack

\* mutant: disable_recursion_pending() is never called
DumpPrunes_Never(entry, base) == FALSE

\* lines 531-535: the directory is not recursed into
DumpPrunes(entry, base) ==
    IsDirectory(entry) /\ ListVerdict(entry, base) # "visible"

\* mutant: a file must pass the list filters too
DumpPrints_ListToo(entry, base) ==
    /\ ~IsDirectory(entry)
    /\ ListVerdict(entry, base) = "visible"
    /\ PrintVerdict(entry, base) = "visible"

\* lines 537-545: the entry is a regular file that passes the print filters
DumpPrints(entry, base) ==
    ~IsDirectory(entry) /\ PrintVerdict(entry, base) = "visible"

\* lines 551-564: the file is the one stdout writes to
IsProgramOutput(entry) == stdout_file # NoPath /\ entry = stdout_file

\* the end of the loop over one target's entries
AfterDump(stack) == IF stack = <<>> THEN "target" ELSE "dumpwalk"

\* lines 521-525: construct the iterator
DumpBegin ==
    /\ pc = "dump"
    /\ IF IsDirectory(target_path)
       THEN /\ dumpStack' = UnwindDump(<<Children(target_path)>>)
            /\ pc' = AfterDump(dumpStack')
            /\ t' = IF dumpStack' = <<>> THEN t + 1 ELSE t
            /\ errs' = errs
       ELSE /\ errs' = Append(errs, "error during file traversal")
            /\ t' = t + 1
            /\ pc' = "target"
            /\ UNCHANGED dumpStack
    /\ UNCHANGED <<first_flag_idx, argi, target_paths, filters, target_path, treeStack>>
    /\ UNCHANGED <<treeOut, listChecked, printChecked, emitted, loopSkipped>>
    /\ UNCHANGED <<envVars, callVars>>

\* lines 526-599: the loop body for the next entry
DumpStep ==
    /\ pc = "dumpwalk"
    /\ \E entry \in dumpStack[Len(dumpStack)] :
         LET rest == SubSeq(dumpStack, 1, Len(dumpStack) - 1)
             popped == Append(rest, dumpStack[Len(dumpStack)] \ {entry})
             recursed == UnwindDump(Append(popped, Children(entry)))
             skipped == UnwindDump(popped)
         IN  IF IsDirectory(entry)
             THEN /\ listChecked' = listChecked \cup {<<t, entry>>}
                  /\ UNCHANGED <<printChecked, emitted, loopSkipped>>
                  /\ IF ListVerdict(entry, target_path) = "abort"
                     THEN /\ pc' = "aborted"
                          /\ UNCHANGED <<dumpStack, t>>
                     ELSE /\ dumpStack' = IF DumpPrunes(entry, target_path)
                                          THEN skipped ELSE recursed
                          /\ pc' = AfterDump(dumpStack')
                          /\ t' = IF dumpStack' = <<>> THEN t + 1 ELSE t
             ELSE /\ printChecked' = printChecked \cup {<<t, entry>>}
                  /\ UNCHANGED listChecked
                  /\ IF PrintVerdict(entry, target_path) = "abort"
                     THEN /\ pc' = "aborted"
                          /\ UNCHANGED <<dumpStack, t, emitted, loopSkipped>>
                     ELSE /\ dumpStack' = skipped
                          /\ pc' = AfterDump(dumpStack')
                          /\ t' = IF dumpStack' = <<>> THEN t + 1 ELSE t
                          /\ IF ~DumpPrints(entry, target_path)
                             THEN UNCHANGED <<emitted, loopSkipped>>
                             ELSE IF IsProgramOutput(entry)
                             THEN /\ loopSkipped' = loopSkipped \cup {<<t, entry>>}
                                  /\ UNCHANGED emitted
                             ELSE /\ emitted' = emitted \cup {<<t, entry>>}
                                  /\ UNCHANGED loopSkipped
    /\ UNCHANGED <<first_flag_idx, argi, target_paths, filters, target_path, treeStack>>
    /\ UNCHANGED <<treeOut, errs>>
    /\ UNCHANGED <<envVars, callVars>>

\* line 607: every target is done
Finish ==
    /\ pc = "target"
    /\ t > Len(target_paths)
    /\ pc' = "done"
    /\ UNCHANGED <<first_flag_idx, argi, target_paths, filters, t, target_path,
                   treeStack, dumpStack>>
    /\ UNCHANGED <<outVars, envVars, callVars>>

(***************************************************************************)
(* The program.                                                            *)
(***************************************************************************)
\* no call of the pure functions has been made
NoCall ==
    [done |-> FALSE, undefined |-> FALSE, returned |-> FALSE, value |-> FALSE,
     verdict |-> "none"]

CallIdle ==
    /\ m_rel = <<>> /\ m_fname = <<>> /\ m_pattern = <<>>
    /\ m_path = NoPath /\ m_includes = <<>> /\ m_excludes = <<>>
    /\ m_call = NoCall

MainStart ==
    /\ first_flag_idx = 0 /\ argi = 0
    /\ target_paths = <<>>
    /\ filters = EmptyFilters
    /\ t = 0
    /\ target_path = NoPath
    /\ treeStack = <<>> /\ dumpStack = <<>>
    /\ treeOut = <<>>
    /\ listChecked = {} /\ printChecked = {}
    /\ emitted = {} /\ loopSkipped = {}
    /\ errs = <<>>

\* the entries whose relative path cannot be derived, and the output files, tried
BadRelChoices(tr) == {{}, {<<s_src>>} \cap tr, {<<s_build, s_out_js>>}}
StdoutChoices(tr) == {NoPath, <<s_build, s_main_js>>}

Init ==
    /\ argv \in Invocations
    /\ \E tr \in Trees :
         /\ tree = tr.tree
         /\ dirs = tr.dirs
         /\ badRel \in BadRelChoices(tr.tree)
         /\ stdout_file \in StdoutChoices(tr.tree)
    \* back() of an empty string is evaluated for an empty pattern only
    /\ emptyBack \in IF \E k \in 1..Len(argv) : argv[k] = <<>>
                     THEN BackOutcomes ELSE {"nul"}
    /\ use_external_tree \in BOOLEAN
    /\ pc = "scan"
    /\ MainStart
    /\ CallIdle

Next ==
    \/ ScanArgs
    \/ ParseArg
    \/ LoadConfig
    \/ ResolveTarget
    \/ TreeListing
    \/ TreeStep
    \/ DumpBegin
    \/ DumpStep
    \/ Finish

Spec == Init /\ [][Next]_vars


(***************************************************************************)
(* One call of pattern_matches on enumerated arguments.                    *)
(***************************************************************************)
p_star_a_star_b_star == <<"*", "a", "*", "b", "*">>
p_star_mid_star_dle_star == <<"*", "m", "i", "d", "*", "d", "l", "e", "*">>
p_a_star_b == <<"a", "*", "b">>
p_build_star == <<"b", "u", "i", "l", "d", "*">>
r_ab == <<"a", "b">>
r_a_star_b == <<"a", "*", "b">>
r_middle == <<"m", "i", "d", "d", "l", "e">>
r_mid_star_dle == <<"m", "i", "d", "*", "d", "l", "e">>
r_build == <<"b", "u", "i", "l", "d">>
r_build_main_js == <<"b", "u", "i", "l", "d", "/", "m", "a", "i", "n", ".", "j", "s">>
r_nbuild == <<"n", "b", "u", "i", "l", "d">>
r_xbuild_y == <<"x", "b", "u", "i", "l", "d", "/", "y">>
r_src_a_cpp == <<"s", "r", "c", "/", "a", ".", "c", "p", "p">>
r_src_a_cpp_bak == <<"s", "r", "c", "/", "a", ".", "c", "p", "p", ".", "b", "a", "k">>

Seqs(A, n) == UNION {[1..k -> A] : k \in 0..n}

PatternAlphabet == {"a", "*", "/", "\\"}
PathAlphabet == {"a", "*", "/"}

ExamplePatterns ==
    {p_star_a_star_b_star, p_star_mid_star_dle_star, p_a_star_b, p_build_star,
     p_build_dir, p_build_main_js, p_star_cpp, s_build}
Patterns == Seqs(PatternAlphabet, MaxPatLen) \cup ExamplePatterns

\* a relative path as fs::relative yields it: components joined by single '/'
ValidRel(r) ==
    /\ r # <<>>
    /\ r[1] # "/" /\ r[Len(r)] # "/"
    /\ \A k \in 1..(Len(r) - 1) : ~(r[k] = "/" /\ r[k + 1] = "/")
ExampleRelPaths ==
    {r_ab, r_a_star_b, r_middle, r_mid_star_dle, r_build, r_build_main_js,
     r_nbuild, r_xbuild_y, r_src_a_cpp, r_src_a_cpp_bak}
RelPaths == {r \in Seqs(PathAlphabet, MaxPathLen) : ValidRel(r)} \cup ExampleRelPaths

\* the final component of a relative path
RECURSIVE LastComponent(_)
LastComponent(r) ==
    IF ~HasChar(r, "/") THEN r ELSE LastComponent(Tail(r))

MainIdle ==
    /\ argv = <<>>
    /\ stdout_file = NoPath
    /\ use_external_tree = FALSE
    /\ pc = "call"
    /\ MainStart

MatchInit ==
    /\ m_rel \in RelPaths
    /\ m_fname = LastComponent(m_rel)
    /\ m_pattern \in Patterns
    /\ emptyBack \in BackOutcomes
    /\ m_path = NoPath /\ m_includes = <<>> /\ m_excludes = <<>>
    /\ m_call = NoCall
    /\ tree = {} /\ dirs = {} /\ badRel = {}
    /\ MainIdle

CallPatternMatches ==
    /\ pc = "call"
    /\ m_path = NoPath
    /\ ~m_call.done
    /\ m_call' = [done |-> TRUE, verdict |-> "none"] @@
                 PatternCall(m_rel, m_fname, m_pattern)
    /\ UNCHANGED <<m_rel, m_fname, m_pattern, m_path, m_includes, m_excludes>>
    /\ UNCHANGED <<envVars, mainVars, outVars>>

MatchNext == CallPatternMatches

MatchSpec == MatchInit /\ [][MatchNext]_vars

(***************************************************************************)
(* One call of matches_filters on enumerated arguments.                    *)
(***************************************************************************)
FilterTree == BigTree \cup {<<s_src, s_a_bs_b>>}
FilterPatterns == {p_build_dir, p_build_main_js, p_star_js, p_empty}

FilterInit ==
    /\ tree = FilterTree /\ dirs = BigDirs
    /\ m_path \in tree
    /\ badRel \in {{}, {m_path}}
    /\ m_includes \in Seqs(FilterPatterns, MaxList)
    /\ m_excludes \in Seqs(FilterPatterns, MaxList)
    /\ emptyBack \in BackOutcomes
    /\ m_rel = Normalize(RelativeStr(m_path, Root))
    /\ m_fname = Filename(m_path)
    /\ m_pattern = <<>>
    /\ m_call = NoCall
    /\ MainIdle

CallMatchesFilters ==
    /\ pc = "call"
    /\ m_path # NoPath
    /\ ~m_call.done
    /\ LET v == matches_filters(m_path, Root, m_includes, m_excludes)
       IN  m_call' = [NoCall EXCEPT !.done = TRUE,
                                     !.returned = v # "abort",
                                     !.value = v = "visible",
                                     !.verdict = v]
    /\ UNCHANGED <<m_rel, m_fname, m_pattern, m_path, m_includes, m_excludes>>
    /\ UNCHANGED <<envVars, mainVars, outVars>>

FilterNext == CallMatchesFilters

FilterSpec == FilterInit /\ [][FilterNext]_vars


(***************************************************************************)
(* Claims about pattern_matches (checked under MatchSpec).                 *)
(***************************************************************************)
PatternCalled == m_call.done /\ m_path = NoPath

\* C5: pattern_matches is total: for every pattern (the empty string, a lone
\* "*", a lone "/", patterns longer than the path) and every relative path it
\* returns a boolean, and makes no undefined access on the way.
C5_PatternMatchesTotal ==
    PatternCalled => (m_call.returned /\ ~m_call.undefined)

\* the shape of the claim's examples "*mid*dle*" and "*a*b*": a "*" at both
\* ends and another one between them
MultiWildcard(p) ==
    /\ Len(p) >= 3
    /\ p[1] = "*" /\ p[Len(p)] = "*"
    /\ HasChar(SubSeq(p, 2, Len(p) - 1), "*")

AllStars(p) == p # <<>> /\ StripStars(p) = <<>>

\* C6: for a multi-wildcard pattern such as "*mid*dle*" or "*a*b*" the result
\* is true iff the relative path contains the pattern with every "*" removed;
\* a pattern of "*" characters only matches every path.
C6_MultiWildcardFallback ==
    PatternCalled =>
        /\ MultiWildcard(Normalize(m_pattern)) =>
             m_call.value = Contains(m_rel, StripStars(Normalize(m_pattern)))
        /\ AllStars(m_pattern) => m_call.value

\* a pattern with no "*" that, once its separators are normalised, ends with "/"
DirectoryPattern(p) ==
    /\ ~HasChar(p, "*")
    /\ p # <<>>
    /\ Normalize(p)[Len(p)] = "/"

\* C7: for a pattern with no "*" that ends with "/" (as normalised by the
\* matcher) the result is true iff the relative path equals the pattern
\* without its trailing "/" or starts with the pattern including the "/"; the
\* filename argument plays no part; "build/" matches "build" and
\* "build/main.js", not "nbuild" or "xbuild/y".
C7_DirectoryPattern ==
    /\ (PatternCalled /\ DirectoryPattern(m_pattern)) =>
         LET p == Normalize(m_pattern)
         IN  /\ m_call.returned /\ ~m_call.undefined
             /\ m_call.value =
                  (m_rel = SubSeq(p, 1, Len(p) - 1) \/ StartsWith(m_rel, p))
             /\ \A f \in {LastComponent(r) : r \in RelPaths} \cup {<<>>} :
                  pattern_matches(m_rel, f, m_pattern) = m_call.value
    /\ (PatternCalled /\ m_pattern = p_build_dir) =>
         (m_call.value <=> m_rel \in {r_build, r_build_main_js})

\* C7's case: "build/" was matched against "build/main.js", and matched
C7_Witness ==
    /\ PatternCalled
    /\ m_pattern = p_build_dir
    /\ m_rel = r_build_main_js
    /\ m_call.value

(***************************************************************************)
(* Claims about matches_filters (checked under FilterSpec).                *)
(***************************************************************************)
FilterCalled == m_call.done /\ m_path # NoPath

AnyMatches(patterns) ==
    \E k \in 1..Len(patterns) : pattern_matches(m_rel, m_fname, patterns[k])

\* the claim's decision table
ClaimedVerdict(includes, excludes) ==
    IF AnyMatches(includes) THEN "visible"
    ELSE IF AnyMatches(excludes) THEN "hidden"
    ELSE IF includes # <<>> THEN "hidden"
    ELSE "visible"

Reverse(q) == [k \in 1..Len(q) |-> q[Len(q) + 1 - k]]

\* C1: for every relative path, filename, include list and exclude list,
\* matches_filters returns visible if an include pattern matches, else hidden
\* if an exclude pattern matches, else hidden if the include list is not
\* empty, else visible; and the result is the same for the lists in any order.
C1_FilterPrecedence ==
    (FilterCalled /\ badRel = {}) =>
        /\ m_call.verdict = ClaimedVerdict(m_includes, m_excludes)
        /\ m_call.verdict =
             matches_filters(m_path, Root, Reverse(m_includes), Reverse(m_excludes))


(***************************************************************************)
(* Claims about the runs of the program (checked under Spec).              *)
(***************************************************************************)
\* the traversal root of target k, which resolved
TargetOf(k) == CHOOSE n \in Resolve(target_paths[k]) : TRUE

\* the directories strictly between the traversal root and the entry
ProperAncestors(entry, base) ==
    {SubSeq(entry, 1, n) : n \in (Len(base) + 1)..(Len(entry) - 1)}

TreeOutSet == {treeOut[k] : k \in 1..Len(treeOut)}

\* everything a traversal filter-checked, listed, emitted or skipped
Touched == listChecked \cup printChecked \cup emitted \cup loopSkipped \cup TreeOutSet

\* the entries the traversal of target k comes to: those below its root with
\* no list-hidden directory above them
Reached(k) ==
    IF Resolve(target_paths[k]) = {} \/ ~IsDirectory(TargetOf(k)) THEN {}
    ELSE {e \in tree :
            /\ IsBelow(e, TargetOf(k))
            /\ \A d \in ProperAncestors(e, TargetOf(k)) :
                 ListVerdict(d, TargetOf(k)) = "visible"}

EmittedFiles(k) == {rec[2] : rec \in {r \in emitted : r[1] = k}}
ListedEntries(k) == {rec[2] : rec \in {r \in TreeOutSet : r[1] = k}}

\* C2: in the tree walker and in the content dump, a directory the filter
\* evaluator reports hidden on the list axis is not displayed, and nothing
\* below it is ever filter-checked, listed, emitted or skipped.
C2_HiddenDirectoryPruned ==
    /\ \A rec \in Touched :
         \A d \in ProperAncestors(rec[2], TargetOf(rec[1])) :
           ListVerdict(d, TargetOf(rec[1])) = "visible"
    /\ \A rec \in TreeOutSet :
         ListVerdict(rec[2], TargetOf(rec[1])) = "visible"

\* C2's case: a run ended in which a directory with entries below it was
\* checked and found hidden, while files elsewhere were emitted
C2_Witness ==
    /\ pc = "done"
    /\ emitted # {}
    /\ \E rec \in listChecked :
         /\ rec[2] \in dirs
         /\ Children(rec[2]) # {}
         /\ ListVerdict(rec[2], TargetOf(rec[1])) = "hidden"

\* the run of the end-to-end scenario: its tree, its print-axis filters
ScenarioRun ==
    /\ argv = <<f_pe, p_build_dir, f_pi, p_build_main_js>>
    /\ tree = ScenarioTree
    /\ badRel = {}

\* C3 as stated: in the scenario the files whose contents are emitted are
\* exactly src/a.cpp, src/a.cpp.bak and build/main.js.
C3_ScenarioAsStated ==
    (pc = "done" /\ ScenarioRun /\ stdout_file = NoPath) =>
        EmittedFiles(1) = {<<s_src, s_a_cpp>>, <<s_src, s_a_cpp_bak>>,
                           <<s_build, s_main_js>>}

\* C3, amended: in the scenario the one file that passes the print-axis
\* filters is build/main.js, and it is the one file whose contents are
\* emitted (none is when it is the file stdout writes to); src/a.cpp,
\* src/a.cpp.bak and build/out.js are hidden, the include list being
\* non-empty.
C3_ScenarioIncludeOnly ==
    (pc = "done" /\ ScenarioRun) =>
        /\ filters.list_includes = <<>> /\ filters.list_excludes = <<>>
        /\ filters.print_includes = <<p_build_main_js>>
        /\ filters.print_excludes = <<p_build_dir>>
        /\ {e \in tree \ dirs : PrintVerdict(e, Root) = "visible"}
             = {<<s_build, s_main_js>>}
        /\ emitted \cup loopSkipped = {<<1, <<s_build, s_main_js>>>>}
        /\ stdout_file = NoPath => EmittedFiles(1) = {<<s_build, s_main_js>>}

\* C3's case: the scenario's run ended and emitted build/main.js
C3_Witness ==
    /\ pc = "done"
    /\ ScenarioRun
    /\ <<1, <<s_src, s_a_cpp>>>> \in printChecked
    /\ EmittedFiles(1) = {<<s_build, s_main_js>>}

\* C4: run with -e build/ -i build/main.js, the program lists build/main.js
\* and emits its contents, and shows no other file under build.
C4_IncludeInsideExcludedDir ==
    (/\ pc = "done"
     /\ argv = <<f_e, p_build_dir, f_i, p_build_main_js>>
     /\ tree = ScenarioTree /\ badRel = {} /\ stdout_file = NoPath) =>
        /\ <<s_build, s_main_js>> \in ListedEntries(1)
        /\ <<s_build, s_main_js>> \in EmittedFiles(1)
        /\ <<s_build, s_out_js>> \notin ListedEntries(1) \cup EmittedFiles(1)

\* the pattern lists a derivation failure is tried against
SomeLists == {<<>>, <<p_empty>>, <<p_star_js>>, <<p_build_dir, p_star_cpp>>}

\* an abort of the run comes from an empty pattern, on a build that aborts
AbortByEmptyPattern ==
    /\ emptyBack = "abort"
    /\ \E f \in DOMAIN filters : \E k \in 1..Len(filters[f]) : filters[f][k] = <<>>

\* C8: an entry whose relative path cannot be derived is reported not visible
\* whatever the include and exclude lists are, so it is neither listed nor
\* emitted; the failure does not end the run; and the traversal goes on to
\* every other entry it has to visit.
C8_DerivationFailureHidden ==
    /\ \A e \in badRel : \A inc \in SomeLists, exc \in SomeLists :
         matches_filters(e, Root, inc, exc) = "hidden"
    /\ \A rec \in emitted \cup loopSkipped \cup TreeOutSet : rec[2] \notin badRel
    /\ pc = "aborted" => AbortByEmptyPattern
    /\ pc = "done" =>
         \A k \in 1..Len(target_paths) : \A e \in Reached(k) :
           IF e \in dirs THEN <<k, e>> \in listChecked
           ELSE <<k, e>> \in printChecked

\* C8's case: a run ended in which the derivation failed for a file that was
\* checked, and a file beside it was emitted
C8_Witness ==
    /\ pc = "done"
    /\ \E rec \in printChecked :
         /\ rec[2] \in badRel
         /\ \E other \in emitted :
              /\ other[1] = rec[1]
              /\ other[2] # rec[2]
              /\ Parent(other[2]) = Parent(rec[2])

\* C9 as stated: a regular file the dump comes to has its contents emitted
\* iff it is visible under the print-axis filters.
C9_EmittedIffPrintVisible ==
    \A rec \in printChecked :
      rec \in emitted <=> PrintVerdict(rec[2], TargetOf(rec[1])) = "visible"

\* C9, amended: a regular file the dump comes to has its contents emitted iff
\* it is visible under the print-axis filters and is not the file stdout
\* writes to, whether or not a list-axis pattern hides the file itself; a file
\* hidden on the print axis is skipped and the files beside it are visited.
C9_PrintAxisIndependent ==
    /\ emitted \cup loopSkipped \subseteq printChecked
    /\ \A rec \in printChecked :
         /\ rec \in emitted <=>
              /\ PrintVerdict(rec[2], TargetOf(rec[1])) = "visible"
              /\ ~IsProgramOutput(rec[2])
         /\ rec \in loopSkipped <=>
              /\ PrintVerdict(rec[2], TargetOf(rec[1])) = "visible"
              /\ IsProgramOutput(rec[2])
    /\ pc = "done" =>
         \A k \in 1..Len(target_paths) : \A e \in Reached(k) \ dirs :
           <<k, e>> \in printChecked

\* C9's case: a run ended having emitted a file its list axis hides, and
\* having skipped a print-hidden file beside an emitted one
C9_Witness ==
    /\ pc = "done"
    /\ \E rec \in emitted : ListVerdict(rec[2], TargetOf(rec[1])) = "hidden"
    /\ \E rec \in printChecked \ emitted :
         /\ PrintVerdict(rec[2], TargetOf(rec[1])) = "hidden"
         /\ \E other \in emitted :
              other[1] = rec[1] /\ Parent(other[2]) = Parent(rec[2])

\* C10: for catlr . .txt .md the arguments .txt and .md are recorded as
\* print-include patterns and the target directories stay ["."].
C10_BackwardsCompatibleForm ==
    (argv = <<s_dot, p_txt, p_md>> /\ pc \notin {"scan", "parse"}) =>
        /\ filters.print_includes = <<p_txt, p_md>>
        /\ target_paths = <<s_dot>>

====
